---- MODULE Spec2Model ----
(***************************************************************************)
(* A state-machine model of src/app.py, the MPIE Streamlit dashboard: one  *)
(* run of the script, from the file uploader through run_agent, the regex  *)
(* extraction of the report fields and the rendering calls.                *)
(*                                                                         *)
(* Text is a sequence of one-character strings.  The regular expressions,  *)
(* str.strip, str.splitlines, str.capitalize, json.loads, float() and the  *)
(* ".3f" format are operators that compute what Python computes, over the  *)
(* characters that occur in the modelled outputs (ASCII letters, digits,   *)
(* space, tab, CR, LF, the punctuation of the report grammar, "→", "²").   *)
(* JSON values other than strings and plain decimal numbers (literals,     *)
(* nested containers, exponents, escapes) do not occur in those outputs,   *)
(* and a number has at most nine digits.                                   *)
(***************************************************************************)
EXTENDS Integers, Sequences, FiniteSets, TLC

VARIABLES
    pc,         \* the statement of the script that runs next
    uploaded,   \* truthiness of st.file_uploader's result (line 59)
    data_path,  \* tmp.name (line 65)
    spawns,     \* the argv of every subprocess.run call so far (line 43)
    result,     \* the CompletedProcess of run_agent: returncode, stdout
    raw,        \* line 69
    best_col,   \* line 75
    reward_row, \* line 76
    reward,     \* line 77: the dict, as a sequence of [k, val] in insertion order
    rel_block,  \* line 79
    relations,  \* lines 80-83: a sequence of <<source, target, r2 text>>
    assigned,   \* the names among the above that the run has assigned
    mi,         \* position of the for loop of line 89
    shown,      \* the elements emitted to the page, in order
    exc         \* the exception raised, if any: type, argument, raising statement

vars == <<pc, uploaded, data_path, spawns, result, raw, best_col, reward_row,
          reward, rel_block, relations, assigned, mi, shown, exc>>

----------------------------------------------------------------------------
\* Characters and the string methods of Python that the script uses.

Whitespace == {" ", "\t", "\n", "\r"}
Digit == {"0", "1", "2", "3", "4", "5", "6", "7", "8", "9"}
LowerCase == <<"a", "b", "c", "d", "e", "f", "g", "h", "i", "j", "k", "l",
          "m", "n", "o", "p", "q", "r", "s", "t", "u", "v", "w",
          "x", "y", "z">>
UpperCase == <<"A", "B", "C", "D", "E", "F", "G", "H", "I", "J", "K", "L",
          "M", "N", "O", "P", "Q", "R", "S", "T", "U", "V", "W",
          "X", "Y", "Z">>

SetMin(S) == CHOOSE x \in S : \A y \in S : x <= y
SetMax(S) == CHOOSE x \in S : \A y \in S : x >= y

\* Whether the literal lit occurs in s at position i.
MatchAt(s, i, lit) ==
    /\ i >= 1
    /\ i + Len(lit) - 1 <= Len(s)
    /\ \A k \in 1..Len(lit) : s[i + k - 1] = lit[k]

\* The first position >= from at which lit occurs in s, 0 if none.
Find(s, lit, from) ==
    LET c == {i \in from..(Len(s) - Len(lit) + 1) : MatchAt(s, i, lit)}
    IN  IF c = {} THEN 0 ELSE SetMin(c)

\* The end of the longest run of characters of class cls starting at i
\* (the first position >= i that is past the text or not in cls).
RunEnd(s, i, cls) ==
    LET c == {j \in i..Len(s) : s[j] \notin cls}
    IN  IF c = {} THEN Len(s) + 1 ELSE SetMin(c)

\* A greedy \s* starting at i ends here.
SkipWs(s, i) == RunEnd(s, i, Whitespace)

\* A greedy .* starting at i ends here: "." matches anything but "\n".
LineEnd(s, i) ==
    LET c == {j \in i..Len(s) : s[j] = "\n"}
    IN  IF c = {} THEN Len(s) + 1 ELSE SetMin(c)

\* str.strip()
Strip(s) ==
    LET c == {j \in 1..Len(s) : s[j] \notin Whitespace}
    IN  IF c = {} THEN <<>> ELSE SubSeq(s, SetMin(c), SetMax(c))

\* str.splitlines(): breaks at "\n", "\r" and "\r\n"; no empty last line.
RECURSIVE SplitLines(_)
SplitLines(s) ==
    IF s = <<>> THEN <<>>
    ELSE LET c == {j \in 1..Len(s) : s[j] \in {"\n", "\r"}}
         IN  IF c = {} THEN <<s>>
             ELSE LET j == SetMin(c)
                      k == IF s[j] = "\r" /\ j < Len(s) /\ s[j + 1] = "\n"
                           THEN j + 1 ELSE j
                  IN  <<SubSeq(s, 1, j - 1)>> \o SplitLines(SubSeq(s, k + 1, Len(s)))

\* str.replace("'", '"')
ReplaceQuotes(s) == [i \in 1..Len(s) |-> IF s[i] = "'" THEN "\"" ELSE s[i]]

IndexIn(seq, c) == CHOOSE i \in 1..Len(seq) : seq[i] = c
InSeq(seq, c) == \E i \in 1..Len(seq) : seq[i] = c
Upper(c) == IF InSeq(LowerCase, c) THEN UpperCase[IndexIn(LowerCase, c)] ELSE c
Lower(c) == IF InSeq(UpperCase, c) THEN LowerCase[IndexIn(UpperCase, c)] ELSE c

\* A capitalize that leaves the characters after the first as they are.
CapitalizeFirstOnly(s) == [i \in 1..Len(s) |-> IF i = 1 THEN Upper(s[i]) ELSE s[i]]

\* str.capitalize(): the first character upper-cased, the rest lower-cased.
Capitalize(s) == [i \in 1..Len(s) |-> IF i = 1 THEN Upper(s[i]) ELSE Lower(s[i])]

----------------------------------------------------------------------------
\* The regular expressions of lines 75-83.  A search result is
\* [ok |-> whether there is a match, g |-> its group(s)].

BestMarker == <<"B", "e", "s", "t", " ", "c", "o", "l", "u", "m", "n", ":">>
RewardMarker == <<"R", "e", "w", "a", "r", "d", " ", "b", "r", "e", "a", "k",
          "-", "d", "o", "w", "n", ":">>
RelMarker == <<"T", "o", "p", " ", "r", "e", "l", "a", "t", "i", "o", "n",
          "s", ":">>
Arrow == "→"
DegLit == <<"d", "e", "g", "=">>
R2Lit == <<"R", "²", "=">>
BlankLine == <<"\n", "\n">>

NoMatch == [ok |-> FALSE, g |-> <<>>]

\* re.search(r"Best column:\s*(.*)", raw): the leftmost marker; \s* is
\* greedy and crosses line ends; (.*) runs to the end of the line reached.
search_best_col(s) ==
    LET i == Find(s, BestMarker, 1)
    IN  IF i = 0 THEN NoMatch
        ELSE LET j == SkipWs(s, i + Len(BestMarker))
             IN  [ok |-> TRUE, g |-> SubSeq(s, j, LineEnd(s, j) - 1)]

\* r"Reward break-down:\s*({.*})" tried with the marker at i: after the
\* whitespace a "{", and the group runs to the last "}" of that line.
RewardAt(s, i) ==
    LET j == SkipWs(s, i + Len(RewardMarker))
        closers == {k \in (j + 1)..(LineEnd(s, j) - 1) : s[k] = "}"}
    IN  IF MatchAt(s, i, RewardMarker) /\ j <= Len(s) /\ s[j] = "{" /\ closers # {}
        THEN [ok |-> TRUE, g |-> SubSeq(s, j, SetMax(closers))]
        ELSE NoMatch

\* re.search(r"Reward break-down:\s*({.*})", raw): the leftmost position
\* at which the pattern matches.
search_reward_row(s) ==
    LET c == {i \in 1..Len(s) : RewardAt(s, i).ok}
    IN  IF c = {} THEN NoMatch ELSE RewardAt(s, SetMin(c))

\* r"Top relations:\s*([\s\S]*?)\n\n" tried with the marker at i.  The
\* greedy \s* first takes all the whitespace and gives it back one
\* character at a time; the lazy group then stops at the first "\n\n" at
\* or after its start.  So the group starts at the largest position p,
\* from the marker's end to the end of the whitespace, with a "\n\n" at or
\* after p.
RelBlockAt(s, i) ==
    LET a == i + Len(RelMarker)
        starts == {p \in a..SkipWs(s, a) : Find(s, BlankLine, p) # 0}
    IN  IF MatchAt(s, i, RelMarker) /\ starts # {}
        THEN LET p == SetMax(starts)
             IN  [ok |-> TRUE, g |-> SubSeq(s, p, Find(s, BlankLine, p) - 1)]
        ELSE NoMatch

\* re.search(r"Top relations:\s*([\s\S]*?)\n\n", raw)
search_rel_block(s) ==
    LET c == {i \in 1..Len(s) : RelBlockAt(s, i).ok}
    IN  IF c = {} THEN NoMatch ELSE RelBlockAt(s, SetMin(c))

\* r"\s*deg=\d+\s*R²=([\d.]+)" matched at position e of a line: the R²
\* text, or <<>> when there is no match (the R² text has >= 1 character).
RelTailAt(l, e) ==
    LET j1 == SkipWs(l, e)
        d1 == j1 + Len(DegLit)
        d2 == RunEnd(l, d1, Digit)
        j2 == SkipWs(l, d2)
        f1 == j2 + Len(R2Lit)
        f2 == RunEnd(l, f1, Digit \cup {"."})
    IN  IF MatchAt(l, j1, DegLit) /\ d2 > d1 /\ MatchAt(l, j2, R2Lit) /\ f2 > f1
        THEN SubSeq(l, f1, f2 - 1)
        ELSE <<>>

\* re.match(r"(.*?)→(.*?)\s*deg=\d+\s*R²=([\d.]+)", l): both lazy groups
\* take the shortest text that lets the rest match: the first arrow after
\* which the tail matches somewhere, then the first such place.
match_relation(l) ==
    LET ends(p) == {e \in (p + 1)..(Len(l) + 1) : RelTailAt(l, e) # <<>>}
        arrows == {p \in 1..Len(l) : l[p] = Arrow /\ ends(p) # {}}
    IN  IF arrows = {} THEN NoMatch
        ELSE LET p == SetMin(arrows)
                 e == SetMin(ends(p))
             IN  [ok |-> TRUE,
                  g |-> <<SubSeq(l, 1, p - 1), SubSeq(l, p + 1, e - 1), RelTailAt(l, e)>>]

----------------------------------------------------------------------------
\* json.loads (line 77), float() (line 95) and the ".3f" format (line 90).

DecimalDigits == <<"0", "1", "2", "3", "4", "5", "6", "7", "8", "9">>
DigitVal(c) == IndexIn(DecimalDigits, c) - 1

RECURSIVE DigitsToInt(_)
DigitsToInt(d) ==
    IF d = <<>> THEN 0
    ELSE DigitsToInt(SubSeq(d, 1, Len(d) - 1)) * 10 + DigitVal(d[Len(d)])

RECURSIVE IntToDigits(_)
IntToDigits(n) ==
    IF n < 10 THEN <<DecimalDigits[n + 1]>>
    ELSE IntToDigits(n \div 10) \o <<DecimalDigits[(n % 10) + 1]>>

RECURSIVE Pow10(_)
Pow10(k) == IF k = 0 THEN 1 ELSE 10 * Pow10(k - 1)

JsonFail == [ok |-> FALSE, val |-> <<>>, next |-> 0]

\* A JSON string whose opening quote is at i (no escapes occur): control
\* characters inside it are a decode error.
JsonString(t, i) ==
    LET q == Find(t, <<"\"">>, i + 1)
    IN  IF /\ i <= Len(t) /\ t[i] = "\"" /\ q # 0
           /\ \A k \in (i + 1)..(q - 1) : t[k] \notin {"\n", "\r", "\t"}
        THEN [ok |-> TRUE, val |-> [kind |-> "str", s |-> SubSeq(t, i + 1, q - 1)],
              next |-> q + 1]
        ELSE JsonFail

\* A JSON number at i: -? (0 | [1-9][0-9]*) (. [0-9]+)?  The scanner takes
\* the longest such prefix; an int without a fraction, a float with one.
JsonNumber(t, i) ==
    LET neg == i <= Len(t) /\ t[i] = "-"
        a == IF neg THEN i + 1 ELSE i
        ie == IF a <= Len(t) /\ t[a] = "0" THEN a + 1 ELSE RunEnd(t, a, Digit)
        hasFrac == ie + 1 <= Len(t) /\ t[ie] = "." /\ t[ie + 1] \in Digit
        fe == IF hasFrac THEN RunEnd(t, ie + 1, Digit) ELSE ie
    IN  IF ie > a
        THEN [ok |-> TRUE,
              val |-> [kind |-> "num", neg |-> neg, isfloat |-> hasFrac,
                       int |-> SubSeq(t, a, ie - 1),
                       frac |-> IF hasFrac THEN SubSeq(t, ie + 1, fe - 1) ELSE <<>>],
              next |-> fe]
        ELSE JsonFail

JsonValue(t, i) ==
    IF i > Len(t) THEN JsonFail
    ELSE IF t[i] = "\"" THEN JsonString(t, i)
    ELSE IF t[i] \in Digit \cup {"-"} THEN JsonNumber(t, i)
    ELSE JsonFail

\* dict[k] = v: a repeated key keeps its first position and takes the
\* last value.
DictSet(d, k, v) ==
    IF \E i \in 1..Len(d) : d[i].k = k
    THEN [i \in 1..Len(d) |-> IF d[i].k = k THEN [k |-> k, val |-> v] ELSE d[i]]
    ELSE Append(d, [k |-> k, val |-> v])

JsonError == [ok |-> FALSE, v |-> <<>>]

\* The members of an object from the key expected at i: "key": value,
\* then "," and another member, or "}" and nothing but whitespace.
RECURSIVE JsonMembers(_, _, _)
JsonMembers(t, i, acc) ==
    LET key == JsonString(t, i)
        c == SkipWs(t, key.next)
        v == JsonValue(t, SkipWs(t, c + 1))
        d == SkipWs(t, v.next)
    IN  IF ~key.ok \/ c > Len(t) \/ t[c] # ":" \/ ~v.ok \/ d > Len(t)
        THEN JsonError
        ELSE IF t[d] = ","
        THEN JsonMembers(t, SkipWs(t, d + 1), DictSet(acc, key.val.s, v.val))
        ELSE IF t[d] = "}" /\ SkipWs(t, d + 1) > Len(t)
        THEN [ok |-> TRUE, v |-> DictSet(acc, key.val.s, v.val)]
        ELSE JsonError

\* json.loads(t) for a text that starts an object: [ok, v], v the dict.
json_loads(t) ==
    LET s == SkipWs(t, 1)
        m == SkipWs(t, s + 1)
    IN  IF s > Len(t) \/ t[s] # "{" \/ m > Len(t) THEN JsonError
        ELSE IF t[m] = "}"
        THEN IF SkipWs(t, m + 1) > Len(t) THEN [ok |-> TRUE, v |-> <<>>] ELSE JsonError
        ELSE JsonMembers(t, m, <<>>)

\* Whether float(t) accepts a text of digits and dots: at most one dot
\* and at least one digit.
float_ok(t) ==
    /\ Cardinality({i \in 1..Len(t) : t[i] = "."}) <= 1
    /\ \E i \in 1..Len(t) : t[i] \in Digit

RECURSIVE Normalize(_, _)
Normalize(n, e) ==
    IF e > 0 /\ n % 10 = 0 THEN Normalize(n \div 10, e - 1) ELSE [n |-> n, e |-> e]

\* float(t) for such a text, as the decimal n / 10^e in lowest form.
float_of(t) ==
    LET dot == Find(t, <<".">>, 1)
        digits == SelectSeq(t, LAMBDA c : c # ".")
    IN  Normalize(DigitsToInt(digits), IF dot = 0 THEN 0 ELSE Len(t) - dot)

RECURSIVE BitLen(_)
BitLen(i) == IF i = 0 THEN 0 ELSE 1 + BitLen(i \div 2)

\* Binary long division of r / d (r < d), taking `left` more significant
\* bits (the bits before the first 1 do not count until one is taken):
\* the remainder left and the last bit taken.
RECURSIVE FracBits(_, _, _, _, _)
FracBits(r, d, left, started, last) ==
    IF left = 0 THEN [r |-> r, last |-> last]
    ELSE IF r = 0 THEN [r |-> 0, last |-> 0]
    ELSE LET bit == IF 2 * r >= d THEN 1 ELSE 0
             r2 == 2 * r - bit * d
         IN  IF ~started /\ bit = 0 THEN FracBits(r2, d, left, FALSE, last)
             ELSE FracBits(r2, d, left - 1, TRUE, bit)

\* The sign of (the double nearest to n / d) - n / d: the quotient is cut
\* after 53 significant bits and rounded to nearest, ties to even.
DoubleError(n, d) ==
    LET ip == n \div d
        f == FracBits(n % d, d, 53 - BitLen(ip), ip > 0, ip % 2)
    IN  IF 2 * f.r < d THEN (IF f.r = 0 THEN 0 ELSE -1)
        ELSE IF 2 * f.r > d THEN 1
        ELSE IF f.last = 0 THEN -1 ELSE 1

\* f"{v:.3f}" of a JSON number of at most nine digits: the stored value
\* (the int, or the double nearest to the decimal text) rounded to three
\* decimals, ties to even.  A text that is no decimal tie rounds as its
\* double does; at a decimal tie the double's error decides.
Format3f(v) ==
    LET n == DigitsToInt(v.int \o v.frac)
        e == Len(v.frac)
        k == n \div Pow10(e - 3)
        rem == n % Pow10(e - 3)
        half == 5 * Pow10(e - 4)
        err == DoubleError(n, Pow10(e))
        milli == IF e <= 3 THEN n * Pow10(3 - e)
                 ELSE IF rem < half THEN k
                 ELSE IF rem > half THEN k + 1
                 ELSE IF err < 0 THEN k
                 ELSE IF err > 0 THEN k + 1
                 ELSE IF k % 2 = 0 THEN k ELSE k + 1
        f == milli % 1000
        sign == IF v.neg /\ (v.isfloat \/ n # 0) THEN <<"-">> ELSE <<>>
    IN  sign \o IntToDigits(milli \div 1000) \o <<".">>
             \o <<DecimalDigits[(f \div 100) + 1], DecimalDigits[((f \div 10) % 10) + 1],
                  DecimalDigits[(f % 10) + 1]>>

----------------------------------------------------------------------------
\* The inputs of a run: the uploaded file's temporary path, and what the
\* analysis process prints and how it exits.

MaxRel == 2

Paths == {"/tmp/tmpa.csv", "/tmp/tmpb.csv"}
ExitCodes == {0, 1, 2}

GoodBest == <<"B", "e", "s", "t", " ", "c", "o", "l", "u", "m", "n", ":",
          " ", "t", "e", "m", "p", " ", "\n">>
BestLines == {GoodBest, <<>>, <<"B", "e", "s", "t", " ", "c", "o", "l", "u",
          "m", "n", ":", " ", "\n">>}

GoodReward == <<"R", "e", "w", "a", "r", "d", " ", "b", "r", "e", "a", "k",
          "-", "d", "o", "w", "n", ":", " ", "{", "'", "a", "c",
          "c", "'", ":", " ", "0", ".", "9", "1", ",", " ", "'",
          "m", "R", "'", ":", " ", "0", ".", "5", "}", "\n">>
RewardLines ==
    {GoodReward, <<>>,
     <<"R", "e", "w", "a", "r", "d", " ", "b", "r", "e", "a", "k", "-", "d",
       "o", "w", "n", ":", " ", "{", "'", "a", "'", ":", " ", "1",
       "\n">>,
     <<"R", "e", "w", "a", "r", "d", " ", "b", "r", "e", "a", "k", "-", "d",
       "o", "w", "n", ":", " ", "{", "'", "a", "'", ":", " ", "1",
       "}", "}", "\n">>,
     <<"R", "e", "w", "a", "r", "d", " ", "b", "r", "e", "a", "k", "-", "d",
       "o", "w", "n", ":", " ", "{", "'", "a", "'", ":", " ", "'",
       "x", "'", "}", "\n">>,
     <<"R", "e", "w", "a", "r", "d", " ", "b", "r", "e", "a", "k", "-", "d",
       "o", "w", "n", ":", " ", "{", "'", "a", "'", ":", " ", "2",
       ",", " ", "'", "b", "'", ":", " ", "'", "x", "'", "}", "\n">>,
     <<"R", "e", "w", "a", "r", "d", " ", "b", "r", "e", "a", "k", "-", "d",
       "o", "w", "n", ":", " ", "{", "'", "a", "'", ":", " ", "1",
       ",", " ", "'", "b", "'", ":", " ", "0", ".", "2", "5", ",",
       " ", "'", "a", "'", ":", " ", "3", "}", "\n">>,
     <<"R", "e", "w", "a", "r", "d", " ", "b", "r", "e", "a", "k", "-", "d",
       "o", "w", "n", ":", " ", "{", "'", "t", "'", ":", " ", "0",
       ".", "0", "6", "2", "5", ",", " ", "'", "u", "'", ":", " ",
       "2", ".", "6", "7", "5", "5", ",", " ", "'", "w", "'", ":",
       " ", "-", "1", ".", "5", "0", "1", "5", "}", "\n">>,
     <<"R", "e", "w", "a", "r", "d", " ", "b", "r", "e", "a", "k", "-", "d",
       "o", "w", "n", ":", " ", "{", "'", "h", "'", ":", " ", "0",
       ".", "1", "2", "3", "5", ",", " ", "'", "z", "'", ":", " ",
       "-", "0", ".", "0", "0", "0", "4", ",", " ", "'", "n", "'",
       ":", " ", "7", "}", "\n">>,
     <<"R", "e", "w", "a", "r", "d", " ", "b", "r", "e", "a", "k", "-", "d",
       "o", "w", "n", ":", " ", "{", "}", "\n">>}

RelLines ==
    {<<"p", " ", "→", " ", "v", " ", "d", "e", "g", "=", "2", " ", "R", "²",
       "=", "0", ".", "6", "5", "\n">>,
     <<"t", "→", "u", " ", "d", "e", "g", "=", "1", " ", "R", "²", "=", "0",
       ".", "8", "8", "\n">>,
     <<"p", " ", "→", " ", "v", " ", "R", "²", "=", "0", ".", "5", "\n">>,
     <<"p", " ", "→", " ", "v", " ", "d", "e", "g", "=", "2", "\n">>,
     <<"a", " ", "→", " ", "b", " ", "d", "e", "g", "=", "3", " ", "R", "²",
       "=", "1", ".", "2", ".", "3", "\n">>}

\* Every concatenation of at most n relation lines.
RECURSIVE Blocks(_)
Blocks(n) ==
    IF n = 0 THEN {<<>>}
    ELSE Blocks(n - 1) \cup {b \o l : b \in Blocks(n - 1), l \in RelLines}

\* The relations section: the marker line, the lines, and a blank line
\* (or none); or no section at all.
RelSections ==
    {RelMarker \o <<"\n">> \o b \o t : b \in Blocks(MaxRel), t \in {<<"\n">>, <<>>}}
        \cup {<<>>}
GoodRel == <<"T", "o", "p", " ", "r", "e", "l", "a", "t", "i", "o", "n", "s",
          ":", "\n", "p", " ", "→", " ", "v", " ", "d", "e", "g",
          "=", "2", " ", "R", "²", "=", "0", ".", "6", "5", "\n",
          "t", "→", "u", " ", "d", "e", "g", "=", "1", " ", "R",
          "²", "=", "0", ".", "8", "8", "\n", "\n">>

\* What may follow the report's last section.
Suffixes == {<<>>, <<"x", "→", "y", " ", "d", "e", "g", "=", "1", " ", "R",
          "²", "=", "0", ".", "5", "\n", "\n">>, <<"-", "-", " ", "e", "n", "d",
          "\n", "\n">>}

Outputs ==
    {b \o r \o GoodRel : b \in BestLines, r \in RewardLines}
        \cup {GoodBest \o GoodReward \o s \o x : s \in RelSections, x \in Suffixes}
        \cup {s \o GoodBest \o GoodReward \o x : s \in RelSections, x \in Suffixes}

----------------------------------------------------------------------------
\* The script.

\* download_model(): os.path.join(CACHE_DIR, ANALYZE_REL)
ANALYZE == "hf_cache/analyze.py"

\* The argv of line 44.
Argv(path) == <<"python", ANALYZE, "--data", path>>

\* run_agent without the check of the return code.
run_agent_ignores_exit(r) == [raised |-> FALSE, value |-> r.stdout]

\* run_agent's lines 49-51 on the CompletedProcess r: raise
\* RuntimeError(r.stdout) on a non-zero return code, else return r.stdout.
run_agent(r) ==
    IF r.returncode # 0
    THEN [raised |-> TRUE, value |-> r.stdout]
    ELSE [raised |-> FALSE, value |-> r.stdout]

NoException == [type |-> "None", arg |-> <<>>, at |-> "None"]
NoneHasNoGroup == <<"'", "N", "o", "n", "e", "T", "y", "p", "e", "'", " ",
          "o", "b", "j", "e", "c", "t", " ", "h", "a", "s", " ",
          "n", "o", " ", "a", "t", "t", "r", "i", "b", "u", "t",
          "e", " ", "'", "g", "r", "o", "u", "p", "'">>
NoneHasNoGroups == <<"'", "N", "o", "n", "e", "T", "y", "p", "e", "'", " ",
          "o", "b", "j", "e", "c", "t", " ", "h", "a", "s", " ",
          "n", "o", " ", "a", "t", "t", "r", "i", "b", "u", "t",
          "e", " ", "'", "g", "r", "o", "u", "p", "s", "'">>
UnknownFormatCode == <<"U", "n", "k", "n", "o", "w", "n", " ", "f", "o", "r",
          "m", "a", "t", " ", "c", "o", "d", "e", " ", "'", "f",
          "'", " ", "f", "o", "r", " ", "o", "b", "j", "e", "c",
          "t", " ", "o", "f", " ", "t", "y", "p", "e", " ", "'",
          "s", "t", "r", "'">>
CouldNotConvert == <<"c", "o", "u", "l", "d", " ", "n", "o", "t", " ", "c",
          "o", "n", "v", "e", "r", "t", " ", "s", "t", "r", "i",
          "n", "g", " ", "t", "o", " ", "f", "l", "o", "a", "t",
          ":", " ">>
AgentCrashedPrefix == <<"A", "g", "e", "n", "t", " ", "c", "r", "a", "s",
          "h", "e", "d", ":", "\n", "\n">>
\* Two characters of line 86 that a string here cannot hold are written by
\* their code points: the magnifying glass and the backquote.
Magnifier == "U+1F50D"
Backquote == "U+0060"
SubheaderPrefix == <<Magnifier>> \o <<" ", "B", "e", "s", "t", " ", "e", "x",
          "p", "l", "a", "n", "a", "t", "o", "r", "y", " ", "c",
          "o", "l", "u", "m", "n", " ", ":", " ">> \o <<Backquote>>

\* An element emitted to the page.
Element(el, arg) == [el |-> el, arg |-> arg]

\* An exception that nothing catches ends the run of the script.
Raise(type, arg) ==
    /\ exc' = [type |-> type, arg |-> arg, at |-> pc]
    /\ pc' = "raised"

Init ==
    /\ pc = "file_uploader"
    /\ uploaded = FALSE
    /\ data_path = ""
    /\ spawns = <<>>
    /\ result = [returncode |-> 0, stdout |-> <<>>]
    /\ raw = <<>>
    /\ best_col = <<>>
    /\ reward_row = <<>>
    /\ reward = <<>>
    /\ rel_block = <<>>
    /\ relations = <<>>
    /\ assigned = {}
    /\ mi = 0
    /\ shown = <<>>
    /\ exc = NoException

\* Lines 59-65: the uploaded file, if any, is saved to a temporary file.
FileUploader ==
    /\ pc = "file_uploader"
    /\ \E up \in BOOLEAN :
        /\ uploaded' = up
        /\ IF up
           THEN \E p \in Paths :
                    /\ data_path' = p
                    /\ assigned' = assigned \cup {"data_path"}
                    /\ pc' = "run_agent"
           ELSE /\ pc' = "info"
                /\ UNCHANGED <<data_path, assigned>>
    /\ UNCHANGED <<spawns, result, raw, best_col, reward_row, reward, rel_block,
                   relations, mi, shown, exc>>

\* Lines 110-111.
Info ==
    /\ pc = "info"
    /\ shown' = Append(shown, Element("info", <<>>))
    /\ pc' = "done"
    /\ UNCHANGED <<uploaded, data_path, spawns, result, raw, best_col, reward_row,
                   reward, rel_block, relations, assigned, mi, exc>>

\* Line 69 with run_agent (lines 42-51): one subprocess.run, which blocks
\* until the process exits with some code and some output.
RunAgent ==
    /\ pc = "run_agent"
    /\ \E rc \in ExitCodes, out \in Outputs :
        LET r == [returncode |-> rc, stdout |-> out]
            ret == run_agent(r)
        IN  /\ spawns' = Append(spawns, Argv(data_path))
            /\ result' = r
            /\ IF ret.raised
               THEN /\ exc' = [type |-> "RuntimeError", arg |-> ret.value, at |-> pc]
                    /\ pc' = "except"
                    /\ UNCHANGED <<raw, assigned>>
               ELSE /\ raw' = ret.value
                    /\ assigned' = assigned \cup {"raw"}
                    /\ pc' = "best_col"
                    /\ UNCHANGED exc
    /\ UNCHANGED <<uploaded, data_path, best_col, reward_row, reward, rel_block,
                   relations, mi, shown>>

\* The handler retrying the analysis instead of stopping.
ExceptCrashRetry ==
    /\ pc = "except"
    /\ shown' = Append(shown, Element("error", AgentCrashedPrefix \o exc.arg))
    /\ pc' = "run_agent"
    /\ UNCHANGED <<uploaded, data_path, spawns, result, raw, best_col, reward_row,
                   reward, rel_block, relations, assigned, mi, exc>>

\* Lines 70-72: any exception of run_agent is shown and the script stops.
ExceptCrash ==
    /\ pc = "except"
    /\ shown' = Append(shown, Element("error", AgentCrashedPrefix \o exc.arg))
    /\ pc' = "stopped"
    /\ UNCHANGED <<uploaded, data_path, spawns, result, raw, best_col, reward_row,
                   reward, rel_block, relations, assigned, mi, exc>>

\* Line 75.
ParseBestCol ==
    /\ pc = "best_col"
    /\ LET m == search_best_col(raw)
       IN  IF m.ok
           THEN /\ best_col' = Strip(m.g)
                /\ assigned' = assigned \cup {"best_col"}
                /\ pc' = "reward_row"
                /\ UNCHANGED exc
           ELSE /\ Raise("AttributeError", NoneHasNoGroup)
                /\ UNCHANGED <<best_col, assigned>>
    /\ UNCHANGED <<uploaded, data_path, spawns, result, raw, reward_row, reward,
                   rel_block, relations, mi, shown>>

\* Line 76.
ParseRewardRow ==
    /\ pc = "reward_row"
    /\ LET m == search_reward_row(raw)
       IN  IF m.ok
           THEN /\ reward_row' = m.g
                /\ assigned' = assigned \cup {"reward_row"}
                /\ pc' = "reward"
                /\ UNCHANGED exc
           ELSE /\ Raise("AttributeError", NoneHasNoGroup)
                /\ UNCHANGED <<reward_row, assigned>>
    /\ UNCHANGED <<uploaded, data_path, spawns, result, raw, best_col, reward,
                   rel_block, relations, mi, shown>>

\* Line 77.  A JSONDecodeError carries the text it could not decode.
ParseReward ==
    /\ pc = "reward"
    /\ LET doc == ReplaceQuotes(reward_row)
           d == json_loads(doc)
       IN  IF d.ok
           THEN /\ reward' = d.v
                /\ assigned' = assigned \cup {"reward"}
                /\ pc' = "rel_block"
                /\ UNCHANGED exc
           ELSE /\ Raise("JSONDecodeError", doc)
                /\ UNCHANGED <<reward, assigned>>
    /\ UNCHANGED <<uploaded, data_path, spawns, result, raw, best_col, reward_row,
                   rel_block, relations, mi, shown>>

\* Line 79.
ParseRelBlock ==
    /\ pc = "rel_block"
    /\ LET m == search_rel_block(raw)
       IN  IF m.ok
           THEN /\ rel_block' = m.g
                /\ assigned' = assigned \cup {"rel_block"}
                /\ pc' = "relations"
                /\ UNCHANGED exc
           ELSE /\ Raise("AttributeError", NoneHasNoGroup)
                /\ UNCHANGED <<rel_block, assigned>>
    /\ UNCHANGED <<uploaded, data_path, spawns, result, raw, best_col, reward_row,
                   reward, relations, mi, shown>>

\* Lines 80-83: the list is built whole, or the first line without a
\* match raises.
ParseRelations ==
    /\ pc = "relations"
    /\ LET lines == SplitLines(Strip(rel_block))
       IN  IF \A i \in 1..Len(lines) : match_relation(lines[i]).ok
           THEN /\ relations' = [i \in 1..Len(lines) |-> match_relation(lines[i]).g]
                /\ assigned' = assigned \cup {"relations"}
                /\ pc' = "subheader"
                /\ UNCHANGED exc
           ELSE /\ Raise("AttributeError", NoneHasNoGroups)
                /\ UNCHANGED <<relations, assigned>>
    /\ UNCHANGED <<uploaded, data_path, spawns, result, raw, best_col, reward_row,
                   reward, rel_block, mi, shown>>

\* Line 86.
Subheader ==
    /\ pc = "subheader"
    /\ shown' = Append(shown, Element("subheader", SubheaderPrefix \o best_col \o <<Backquote>>))
    /\ pc' = "columns"
    /\ UNCHANGED <<uploaded, data_path, spawns, result, raw, best_col, reward_row,
                   reward, rel_block, relations, assigned, mi, exc>>

\* Line 88: st.columns refuses a count of zero (streamlit's
\* StreamlitAPIException; its message is not modelled).
Columns ==
    /\ pc = "columns"
    /\ IF Len(reward) = 0
       THEN /\ Raise("StreamlitAPIException", <<>>)
            /\ UNCHANGED <<shown, mi>>
       ELSE /\ shown' = Append(shown, Element("columns", <<>>))
            /\ mi' = 1
            /\ pc' = "metric"
            /\ UNCHANGED exc
    /\ UNCHANGED <<uploaded, data_path, spawns, result, raw, best_col, reward_row,
                   reward, rel_block, relations, assigned>>

\* Lines 89-90, one turn of the loop: the ".3f" format of a value that is
\* not a number raises before c.metric is called.
Metric ==
    /\ pc = "metric"
    /\ LET item == reward[mi]
       IN  IF item.val.kind = "num"
           THEN /\ shown' = Append(shown,
                        Element("metric", <<Capitalize(item.k), Format3f(item.val)>>))
                /\ mi' = mi + 1
                /\ pc' = IF mi = Len(reward) THEN "chart" ELSE "metric"
                /\ UNCHANGED exc
           ELSE /\ Raise("ValueError", UnknownFormatCode)
                /\ UNCHANGED <<shown, mi>>
    /\ UNCHANGED <<uploaded, data_path, spawns, result, raw, best_col, reward_row,
                   reward, rel_block, relations, assigned>>

\* float() of line 95 fails on the first R² text that is no number.
BadR2(rels) == {i \in 1..Len(rels) : ~float_ok(rels[i][3])}

\* Lines 94-95: the labels and the values handed to ax.barh, in the order
\* of relations.
ChartSeries(rels) ==
    [labels |-> [i \in 1..Len(rels) |-> Strip(rels[i][1]) \o <<Arrow>> \o Strip(rels[i][2])],
     vals |-> [i \in 1..Len(rels) |-> float_of(rels[i][3])]]

\* Lines 93-102: no chart for an empty list.
Chart ==
    /\ pc = "chart"
    /\ IF relations = <<>>
       THEN /\ pc' = "download_button"
            /\ UNCHANGED <<shown, exc>>
       ELSE IF BadR2(relations) # {}
       THEN /\ Raise("ValueError",
                     CouldNotConvert \o <<"'">> \o relations[SetMin(BadR2(relations))][3]
                         \o <<"'">>)
            /\ UNCHANGED shown
       ELSE /\ shown' = Append(shown, Element("chart", ChartSeries(relations)))
            /\ pc' = "download_button"
            /\ UNCHANGED exc
    /\ UNCHANGED <<uploaded, data_path, spawns, result, raw, best_col, reward_row,
                   reward, rel_block, relations, assigned, mi>>

\* Lines 104-106: the raw report as the download (the file name, a
\* timestamp, is not modelled).
DownloadButton ==
    /\ pc = "download_button"
    /\ shown' = Append(shown, Element("download_button", raw))
    /\ pc' = "success"
    /\ UNCHANGED <<uploaded, data_path, spawns, result, raw, best_col, reward_row,
                   reward, rel_block, relations, assigned, mi, exc>>

\* Line 108.
Success ==
    /\ pc = "success"
    /\ shown' = Append(shown, Element("success", <<>>))
    /\ pc' = "done"
    /\ UNCHANGED <<uploaded, data_path, spawns, result, raw, best_col, reward_row,
                   reward, rel_block, relations, assigned, mi, exc>>

Next ==
    \/ FileUploader
    \/ Info
    \/ RunAgent
    \/ ExceptCrash
    \/ ParseBestCol
    \/ ParseRewardRow
    \/ ParseReward
    \/ ParseRelBlock
    \/ ParseRelations
    \/ Subheader
    \/ Columns
    \/ Metric
    \/ Chart
    \/ DownloadButton
    \/ Success

Spec == Init /\ [][Next]_vars

----------------------------------------------------------------------------
\* What the claims speak of.

Terminal == pc \in {"done", "stopped", "raised"}

\* The elements of the presentation: best-column header, metric, chart,
\* download button, success message.
Presentation == {"subheader", "metric", "chart", "download_button", "success"}
NothingPresented == \A i \in 1..Len(shown) : shown[i].el \notin Presentation
ShownOf(el) == SelectSeq(shown, LAMBDA x : x.el = el)

\* The run is an analysis request whose process has exited.
ProcessExited == uploaded /\ pc \notin {"file_uploader", "run_agent"}

\* The report field whose extraction a statement of the script belongs to.
FieldOf(at) ==
    CASE at = "best_col" -> "bestColumn"
      [] at \in {"reward_row", "reward"} -> "rewardBreakdown"
      [] at \in {"rel_block", "relations"} -> "relations"
      [] OTHER -> "none"

Count(s, c) == Cardinality({i \in 1..Len(s) : s[i] = c})

\* The grammar of the report as the specification words it.
\* The text from the first occurrence of a marker to the end of its line.
RestOfLine(s, marker) ==
    LET i == Find(s, marker, 1)
    IN  SubSeq(s, i + Len(marker), LineEnd(s, i + Len(marker)) - 1)

\* bestColumn: the text following the marker up to the end of line, trimmed.
SpecBestColumn(s) == Strip(RestOfLine(s, BestMarker))

\* The reward value is absent, has unbalanced braces, or is an object with
\* a value that is not a number.
SpecRewardMalformed(s) ==
    LET t == Strip(RestOfLine(s, RewardMarker))
        d == json_loads(ReplaceQuotes(t))
    IN  \/ Find(s, RewardMarker, 1) = 0
        \/ Count(t, "{") # Count(t, "}")
        \/ d.ok /\ \E i \in 1..Len(d.v) : d.v[i].val.kind # "num"

\* The reward value is a flat object of one or more numbers.
SpecRewardWellFormed(s) ==
    LET d == json_loads(ReplaceQuotes(Strip(RestOfLine(s, RewardMarker))))
    IN  /\ Find(s, RewardMarker, 1) # 0
        /\ d.ok /\ d.v # <<>>
        /\ \A i \in 1..Len(d.v) : d.v[i].val.kind = "num"

\* relations: the non-blank lines following the marker up to the first
\* blank line.
SpecRelLines(s) ==
    LET a == Find(s, RelMarker, 1) + Len(RelMarker)
        e == Find(s, BlankLine, a)
        block == SubSeq(s, a, IF e = 0 THEN Len(s) ELSE e - 1)
    IN  SelectSeq(SplitLines(block), LAMBDA l : Strip(l) # <<>>)

\* The marker is immediately followed by a blank line.
SpecEmptyBlock(s) ==
    LET i == Find(s, RelMarker, 1)
    IN  i # 0 /\ MatchAt(s, i + Len(RelMarker), BlankLine)

HasDeg(l) == \E i \in 1..Len(l) : MatchAt(l, i, DegLit) /\ RunEnd(l, i + 4, Digit) > i + 4
HasR2(l) ==
    \E i \in 1..Len(l) :
        /\ MatchAt(l, i, R2Lit)
        /\ RunEnd(l, i + 3, Digit \cup {"."}) > i + 3
        /\ float_ok(SubSeq(l, i + 3, RunEnd(l, i + 3, Digit \cup {"."}) - 1))
LacksComponent(l) == ~HasDeg(l) \/ ~HasR2(l)

\* The ways to read a line as <source> → <target> deg=<int> R²=<float>:
\* the positions of the arrow, of "deg=" and of "R²=".
LineReadings(l) ==
    {r \in (1..Len(l)) \X (1..Len(l)) \X (1..Len(l)) :
        /\ l[r[1]] = Arrow /\ r[1] < r[2] /\ r[2] < r[3]
        /\ MatchAt(l, r[2], DegLit)
        /\ RunEnd(l, r[2] + 4, Digit) > r[2] + 4
        /\ SkipWs(l, RunEnd(l, r[2] + 4, Digit)) = r[3]
        /\ MatchAt(l, r[3], R2Lit)
        /\ r[3] + 3 <= Len(l)
        /\ RunEnd(l, r[3] + 3, Digit \cup {"."}) = Len(l) + 1
        /\ float_ok(SubSeq(l, r[3] + 3, Len(l)))
        /\ Strip(SubSeq(l, 1, r[1] - 1)) # <<>>
        /\ Strip(SubSeq(l, r[1] + 1, r[2] - 1)) # <<>>}
SpecLineWellFormed(l) == Cardinality(LineReadings(Strip(l))) = 1

\* The chart entry of a well-formed line: its label and its value.
SpecEntry(l) ==
    LET t == Strip(l)
        r == CHOOSE x \in LineReadings(t) : TRUE
    IN  <<Strip(SubSeq(t, 1, r[1] - 1)) \o <<Arrow>> \o Strip(SubSeq(t, r[1] + 1, r[2] - 1)),
          float_of(SubSeq(t, r[3] + 3, Len(t)))>>

\* Every field of the report is there and well formed.
SpecWellFormed(s) ==
    /\ Find(s, BestMarker, 1) # 0 /\ SpecBestColumn(s) # <<>>
    /\ SpecRewardWellFormed(s)
    /\ Find(s, RelMarker, 1) # 0
    /\ Find(s, BlankLine, Find(s, RelMarker, 1)) # 0
    /\ \A i \in 1..Len(SpecRelLines(s)) : SpecLineWellFormed(SpecRelLines(s)[i])

\* The chart series emitted: the <<label, value>> pairs of the chart, none
\* when no chart was drawn.
ChartEntries ==
    LET c == ShownOf("chart")
    IN  IF c = <<>> THEN <<>>
        ELSE [i \in 1..Len(c[1].arg.labels) |-> <<c[1].arg.labels[i], c[1].arg.vals[i]>>]

----------------------------------------------------------------------------
\* C1: when the process exits with a non-zero code, whatever it printed,
\* the outcome is the error raised by run_agent carrying exactly the
\* captured output; no parsing statement runs (none of the parsed names is
\* assigned), nothing of the presentation is emitted, and the run stops
\* showing that output.
C1_NonZeroExitFails ==
    (ProcessExited /\ result.returncode # 0) =>
        /\ pc \in {"except", "stopped"}
        /\ exc = [type |-> "RuntimeError", arg |-> result.stdout, at |-> "run_agent"]
        /\ assigned = {"data_path"}
        /\ NothingPresented
        /\ pc = "stopped" =>
               shown = <<Element("error", AgentCrashedPrefix \o result.stdout)>>

\* C1's case: a process that printed a whole well-formed report and
\* exited with code 2, after the run has stopped.
C1_Witness ==
    /\ pc = "stopped"
    /\ result.returncode = 2
    /\ result.stdout = GoodBest \o GoodReward \o GoodRel

\* C2: an output of a zero-exit process without "Best column:" ends in a
\* classified parse error on bestColumn, never in an unclassified failure,
\* with no field of the report assigned and nothing presented.
C2_MissingBestColumnClassified ==
    ("raw" \in assigned /\ Find(raw, BestMarker, 1) = 0 /\ Terminal) =>
        /\ pc = "raised"
        /\ FieldOf(exc.at) = "bestColumn"
        /\ exc.type # "AttributeError"
        /\ assigned = {"data_path", "raw"}
        /\ NothingPresented

\* C3: an output whose reward value has unbalanced braces, holds a value
\* that is not a number, or is absent, ends in an error raised by the
\* extraction of rewardBreakdown, before anything is presented (the best
\* column having been extracted from its own line).
C3_MalformedRewardFailsInParsing ==
    ("best_col" \in assigned /\ best_col = SpecBestColumn(raw)
        /\ SpecRewardMalformed(raw)) =>
        /\ NothingPresented
        /\ Terminal => (pc = "raised" /\ FieldOf(exc.at) = "rewardBreakdown")

\* C4: an output whose relations block holds a non-blank line without the
\* deg=<int> or the R²=<float> component ends in an error raised by the
\* extraction of relations whose detail is an offending line, and no
\* relations list is produced.
C4_BadRelationLineReported ==
    ("reward" \in assigned /\ Terminal /\ Find(raw, RelMarker, 1) # 0
        /\ Find(raw, BlankLine, Find(raw, RelMarker, 1)) # 0
        /\ \E i \in 1..Len(SpecRelLines(raw)) : LacksComponent(SpecRelLines(raw)[i])) =>
        /\ pc = "raised"
        /\ FieldOf(exc.at) = "relations"
        /\ \E i \in 1..Len(SpecRelLines(raw)) :
               LacksComponent(SpecRelLines(raw)[i]) /\ exc.arg = SpecRelLines(raw)[i]
        /\ "relations" \notin assigned

\* C5: when "Top relations:" is immediately followed by a blank line,
\* whatever precedes the marker or follows the blank line, the extraction
\* of relations succeeds with the empty list, and no chart entry is made.
C5_EmptyBlockGivesNoRelations ==
    ("reward" \in assigned /\ SpecEmptyBlock(raw) /\ pc \notin {"rel_block", "relations"}) =>
        /\ "relations" \in assigned
        /\ relations = <<>>
        /\ ChartEntries = <<>>

\* C6: for a well-formed report with k relation lines, the run completes
\* and the chart series has exactly k entries, the Nth with the label
\* "source→target" (trimmed) and the R² value of the Nth relation line.
C6_ChartFollowsReportOrder ==
    ("raw" \in assigned /\ SpecWellFormed(raw) /\ Terminal) =>
        /\ pc = "done"
        /\ ChartEntries = [i \in 1..Len(SpecRelLines(raw)) |-> SpecEntry(SpecRelLines(raw)[i])]

\* C7: when a step of the run fails (a non-zero exit, a field that is
\* missing or cannot be decoded, a reward value or an R² text that cannot
\* be converted to a number), nothing of the presentation has been emitted.
C7_NoPresentationOnFailure ==
    exc.type \in {"RuntimeError", "AttributeError", "JSONDecodeError", "ValueError"} =>
        NothingPresented

\* C8: an analysis request spawns exactly one process, with arguments
\* ending in --data <the input path>, whether it exits zero or not and
\* whether parsing fails or not: none before run_agent, one ever after.
C8_OneProcessPerRequest ==
    /\ Len(spawns) <= 1
    /\ ~ProcessExited => spawns = <<>>
    /\ ProcessExited =>
           /\ Len(spawns) = 1
           /\ SubSeq(spawns[1], Len(spawns[1]) - 1, Len(spawns[1])) = <<"--data", data_path>>

\* C8's case: a run that ended in a parsing failure after a zero exit.
C8_Witness ==
    /\ pc = "raised"
    /\ result.returncode = 0
    /\ exc.at \in {"best_col", "reward_row", "reward", "rel_block", "relations"}
    /\ Len(spawns) = 1

\* The keys of the parsed reward breakdown stand in the order in which
\* they first occur, quoted, in the text of the report.
RewardInSourceOrder ==
    LET at(j) == Find(reward_row, <<"'">> \o reward[j].k \o <<"'">>, 1)
    IN  \A j \in 1..Len(reward) :
            at(j) # 0 /\ \A h \in 1..(j - 1) : at(h) < at(j)

\* C9 as claimed: the metrics emitted are, in order, one per component of
\* the parsed reward breakdown, each labelled with the component name
\* whose first character is upper-cased and whose other characters are
\* unchanged, and valued with the component's scalar.
C9_MetricLabelsKeepCase ==
    LET m == ShownOf("metric")
    IN  /\ "reward" \in assigned => RewardInSourceOrder
        /\ pc \in {"chart", "download_button", "success", "done"} => Len(m) = Len(reward)
        /\ \A j \in 1..Len(m) :
               /\ Len(m[j].arg[1]) = Len(reward[j].k)
               /\ \A i \in 1..Len(reward[j].k) :
                      m[j].arg[1][i] = IF i = 1 THEN Upper(reward[j].k[i]) ELSE reward[j].k[i]
               /\ m[j].arg[2] = Format3f(reward[j].val)

\* C9 as amended: the metrics emitted are, in the source order of the
\* report, one per component of the parsed reward breakdown (all of them
\* once the metrics are rendered), each labelled with the component name
\* whose first character is upper-cased and whose other characters are
\* lower-cased, and valued with the component's scalar to three decimals.
C9_MetricLabelsCapitalized ==
    LET m == ShownOf("metric")
    IN  /\ "reward" \in assigned => RewardInSourceOrder
        /\ pc \in {"chart", "download_button", "success", "done"} => Len(m) = Len(reward)
        /\ \A j \in 1..Len(m) :
               /\ Len(m[j].arg[1]) = Len(reward[j].k)
               /\ \A i \in 1..Len(reward[j].k) :
                      m[j].arg[1][i] =
                          IF i = 1 THEN Upper(reward[j].k[i]) ELSE Lower(reward[j].k[i])
               /\ m[j].arg[2] = Format3f(reward[j].val)

\* C9's case: a completed run whose report names a component "mR" after
\* "acc": the metrics are "Acc" 0.910 and "Mr" 0.500.
C9_Witness ==
    /\ pc = "done"
    /\ Len(reward) = 2 /\ reward[2].k = <<"m", "R">>
    /\ ShownOf("metric") = <<Element("metric", <<<<"A", "c", "c">>, <<"0", ".", "9",
          "1", "0">>>>),
                             Element("metric", <<<<"M", "r">>, <<"0", ".", "5",
          "0", "0">>>>)>>

\* C10: the extracted best column is the trimmed text between the marker
\* and the end of the marker's line, and is not empty when the run
\* completes.
C10_BestColumnFromMarkerLine ==
    "best_col" \in assigned =>
        /\ best_col = SpecBestColumn(raw)
        /\ pc = "done" => best_col # <<>>

====
